---- MODULE Spec2Model ----
(***************************************************************************)
(* Discrete-time data-center simulation: SimulationEngine.run drives a    *)
(* LoadBalancer over ServerNodes and feeds a MetricsCollector.             *)
(*                                                                         *)
(* Time is modelled on an integer grid: the clock, the step dt, service    *)
(* durations and the timeout are integers.  None (an unset timestamp) is   *)
(* -1 and float("inf") (the default timeout) is the value Inf, compared    *)
(* through Exceeds.  The random draws (Poisson arrival count, exponential  *)
(* service duration) are nondeterministic choices from bounded sets, and a *)
(* run creates a bounded number of requests.                               *)
(***************************************************************************)
EXTENDS Integers, Sequences, FiniteSets, TLC

\* ---------------------------------------------------------------- bounds
MaxServers  == 2      \* num_servers ranges over 1..MaxServers
MaxArrivals == 2      \* Poisson draw per tick ranges over 0..MaxArrivals
MaxRequests == 4      \* a run creates at most MaxRequests requests
MaxService  == 2      \* exponential draw ranges over {1, MaxService}
MaxDuration == 3      \* sim_duration ranges over 0..MaxDuration
MaxDt       == 2      \* dt ranges over 1..MaxDt
MaxTimeout  == 1      \* finite request_timeout ranges over 0..MaxTimeout
MaxCalls    == 3      \* calls made on a collector or dispatcher used alone

\* ------------------------------------------------------------- constants
None == -1            \* Python None for an unset timestamp / empty slot
Inf  == -2            \* float("inf"), the default request_timeout

ALGORITHMS == <<"round_robin", "least_loaded">>

VARIABLES
    num_servers,      \* len(engine.servers)
    algorithm,        \* load_balancer.algorithm
    request_timeout,  \* engine.request_timeout
    dt,               \* engine.dt
    sim_duration,     \* engine.sim_duration
    clock,            \* engine.clock
    pc,               \* position in run(): loop, arrivals, evict, advance, done
    tickNo,           \* iterations of the main loop started so far
    pending,          \* arrivals of the current tick still to create
    idx,              \* index of the server the current for-loop is at
    servers,          \* server_id -> [queue, current_request, completed]
    reqs,             \* request_id -> ClientRequest fields
    id_counter,       \* ClientRequest._id_counter
    rr_index,         \* load_balancer._rr_index
    metrics,          \* MetricsCollector fields
    completionLog,    \* history: arguments of record_completion, in order
    dropLog,          \* history: arguments of record_drop, in order
    dispatchLog       \* history: results of dispatch, in order

vars == <<num_servers, algorithm, request_timeout, dt, sim_duration, clock, pc,
          tickNo, pending, idx, servers, reqs, id_counter, rr_index, metrics,
          completionLog, dropLog, dispatchLog>>

config == <<num_servers, algorithm, request_timeout, dt, sim_duration>>

\* ------------------------------------------------------------ request.py

\* ClientRequest.__init__
ClientRequest(arrival_time, service_time, timeout) ==
    [arrival_time       |-> arrival_time,
     service_time       |-> service_time,
     timeout            |-> timeout,
     start_service_time |-> None,
     completion_time    |-> None]

\* x > timeout, where timeout may be float("inf")
Exceeds(x, timeout) == timeout # Inf /\ x > timeout

\* ClientRequest.response_time (None while completion_time is unset)
response_time(req) ==
    IF req.completion_time = None THEN None
    ELSE req.completion_time - req.arrival_time

\* variant: the arrival time is not subtracted
is_timed_out_absolute(req, current_time) ==
    IF req.start_service_time # None THEN FALSE
    ELSE Exceeds(current_time, req.timeout)

\* variant: the test on the start of service is inverted
is_timed_out_started(req, current_time) ==
    IF req.start_service_time = None THEN FALSE
    ELSE Exceeds(current_time - req.arrival_time, req.timeout)

\* ClientRequest.is_timed_out
is_timed_out(req, current_time) ==
    IF req.start_service_time # None THEN FALSE
    ELSE Exceeds(current_time - req.arrival_time, req.timeout)

\* ------------------------------------------------------------- server.py

\* ServerNode.__init__
ServerNode ==
    [queue |-> <<>>, current_request |-> None, completed |-> <<>>]

\* variant: the new request is put at the front of the queue
enqueue_front(server, id) == [server EXCEPT !.queue = <<id>> \o @]

\* ServerNode.enqueue
enqueue(server, id) == [server EXCEPT !.queue = Append(@, id)]

\* ServerNode.queue_length
queue_length(server) == Len(server.queue)

\* ServerNode.is_busy
is_busy(server) == server.current_request # None

\* variant: the in-service request is finished on every tick
TickFinishes_always(current_time, completion_time) == TRUE

\* ServerNode.tick, step 1 test: current_time >= req.completion_time
TickFinishes(current_time, completion_time) == current_time >= completion_time

\* variant: step 1 emits the request but leaves it in the slot
TickStep1_keepSlot(server, rq, current_time) ==
    LET cur == server.current_request IN
    IF cur # None /\ TickFinishes(current_time, rq[cur].completion_time)
    THEN [server    |-> [server EXCEPT !.completed = Append(@, cur)],
          rq        |-> [rq EXCEPT ![cur].completion_time = current_time],
          completed |-> <<cur>>]
    ELSE [server |-> server, rq |-> rq, completed |-> <<>>]

\* ServerNode.tick, step 1: complete the in-service request when it is due
TickStep1(server, rq, current_time) ==
    LET cur == server.current_request IN
    IF cur # None /\ TickFinishes(current_time, rq[cur].completion_time)
    THEN [server    |-> [server EXCEPT !.current_request = None,
                                       !.completed = Append(@, cur)],
          rq        |-> [rq EXCEPT ![cur].completion_time = current_time],
          completed |-> <<cur>>]
    ELSE [server |-> server, rq |-> rq, completed |-> <<>>]

\* variant: the head of the queue is read but not removed
TickStep2_noPop(server, rq, current_time) ==
    IF server.current_request = None /\ server.queue # <<>>
    THEN LET next_req == Head(server.queue) IN
         [server |-> [server EXCEPT !.current_request = next_req],
          rq     |-> [rq EXCEPT
                        ![next_req].start_service_time = current_time,
                        ![next_req].completion_time =
                            current_time + rq[next_req].service_time]]
    ELSE [server |-> server, rq |-> rq]

\* variant: the head is pulled only when another request waits behind it
TickStep2_needsTwo(server, rq, current_time) ==
    IF server.current_request = None /\ Len(server.queue) > 1
    THEN LET next_req == Head(server.queue) IN
         [server |-> [server EXCEPT !.queue = Tail(@),
                                    !.current_request = next_req],
          rq     |-> [rq EXCEPT
                        ![next_req].start_service_time = current_time,
                        ![next_req].completion_time =
                            current_time + rq[next_req].service_time]]
    ELSE [server |-> server, rq |-> rq]

\* ServerNode.tick, step 2: pull the head of the queue if the slot is free
TickStep2(server, rq, current_time) ==
    IF server.current_request = None /\ server.queue # <<>>
    THEN LET next_req == Head(server.queue) IN
         [server |-> [server EXCEPT !.queue = Tail(@),
                                    !.current_request = next_req],
          rq     |-> [rq EXCEPT
                        ![next_req].start_service_time = current_time,
                        ![next_req].completion_time =
                            current_time + rq[next_req].service_time]]
    ELSE [server |-> server, rq |-> rq]

\* variant: a call that completed a request does not start the next one
tick_oneStep(server, rq, current_time) ==
    LET s1 == TickStep1(server, rq, current_time)
        s2 == IF s1.completed # <<>> THEN [server |-> s1.server, rq |-> s1.rq]
              ELSE TickStep2(s1.server, s1.rq, current_time)
    IN  [server |-> s2.server, rq |-> s2.rq, completed |-> s1.completed]

\* ServerNode.tick: step 1 then step 2; returns completed_this_tick
tick(server, rq, current_time) ==
    LET s1 == TickStep1(server, rq, current_time)
        s2 == TickStep2(s1.server, s1.rq, current_time)
    IN  [server |-> s2.server, rq |-> s2.rq, completed |-> s1.completed]

\* variant: the two lists of the partition are swapped
drop_timed_out_swapped(server, rq, current_time) ==
    LET timed_out == SelectSeq(server.queue,
                        LAMBDA id : ~is_timed_out(rq[id], current_time))
        remaining == SelectSeq(server.queue,
                        LAMBDA id : is_timed_out(rq[id], current_time))
    IN  [server |-> [server EXCEPT !.queue = remaining],
         timed_out |-> timed_out]

\* variant: only the head of the waiting queue is examined
drop_timed_out_headOnly(server, rq, current_time) ==
    IF server.queue # <<>> /\ is_timed_out(rq[Head(server.queue)], current_time)
    THEN [server |-> [server EXCEPT !.queue = Tail(@)],
          timed_out |-> <<Head(server.queue)>>]
    ELSE [server |-> server, timed_out |-> <<>>]

\* a sequence back to front
RECURSIVE Reverse(_)
Reverse(q) == IF q = <<>> THEN <<>> ELSE Append(Reverse(Tail(q)), Head(q))

\* variant: the kept requests are put back at the front, so in reverse
drop_timed_out_reversed(server, rq, current_time) ==
    LET timed_out == SelectSeq(server.queue,
                        LAMBDA id : is_timed_out(rq[id], current_time))
        remaining == SelectSeq(server.queue,
                        LAMBDA id : ~is_timed_out(rq[id], current_time))
    IN  [server |-> [server EXCEPT !.queue = Reverse(remaining)],
         timed_out |-> timed_out]

\* variant: the timed-out requests are returned but stay in the queue
drop_timed_out_keep(server, rq, current_time) ==
    LET timed_out == SelectSeq(server.queue,
                        LAMBDA id : is_timed_out(rq[id], current_time))
    IN  [server |-> server, timed_out |-> timed_out]

\* ServerNode.drop_timed_out: stable partition of the waiting queue
drop_timed_out(server, rq, current_time) ==
    LET timed_out == SelectSeq(server.queue,
                        LAMBDA id : is_timed_out(rq[id], current_time))
        remaining == SelectSeq(server.queue,
                        LAMBDA id : ~is_timed_out(rq[id], current_time))
    IN  [server |-> [server EXCEPT !.queue = remaining],
         timed_out |-> timed_out]

\* ------------------------------------------------------------ metrics.py

\* MetricsCollector.__init__
MetricsCollector ==
    [completed_requests  |-> 0,
     dropped_requests    |-> 0,
     total_response_time |-> 0,
     response_times      |-> <<>>]

\* variant: the request is counted before the test for incomplete data
record_completion_countFirst(m, req) ==
    LET rt == response_time(req) IN
    IF rt = None THEN [m EXCEPT !.completed_requests = @ + 1]
    ELSE [m EXCEPT !.completed_requests  = @ + 1,
                   !.total_response_time = @ + rt,
                   !.response_times      = Append(@, rt)]

\* MetricsCollector.record_completion
record_completion(m, req) ==
    LET rt == response_time(req) IN
    IF rt = None THEN m
    ELSE [m EXCEPT !.completed_requests  = @ + 1,
                   !.total_response_time = @ + rt,
                   !.response_times      = Append(@, rt)]

\* MetricsCollector.record_drop
record_drop(m, req) == [m EXCEPT !.dropped_requests = @ + 1]

\* MetricsCollector.total_requests
total_requests(m) == m.completed_requests + m.dropped_requests

\* sorted(): insert x into an ascending sequence, after its equals
RECURSIVE Insert(_, _)
Insert(sorted_rt, x) ==
    IF sorted_rt = <<>> THEN <<x>>
    ELSE IF x < Head(sorted_rt) THEN <<x>> \o sorted_rt
         ELSE <<Head(sorted_rt)>> \o Insert(Tail(sorted_rt), x)

\* sorted(self.response_times): ascending, stable
RECURSIVE sorted(_)
sorted(rts) ==
    IF rts = <<>> THEN <<>>
    ELSE Insert(sorted(SubSeq(rts, 1, Len(rts) - 1)), rts[Len(rts)])

\* max(0, x)
Max0(x) == IF x > 0 THEN x ELSE 0

\* variant: the index is not moved down by one
percentile_noMinusOne(m, p) ==
    IF m.response_times = <<>> THEN 0
    ELSE LET sorted_rt == sorted(m.response_times)
             n   == Len(sorted_rt)
             raw == (n * p) \div 100
         IN  sorted_rt[(IF raw > n - 1 THEN n - 1 ELSE raw) + 1]

\* MetricsCollector.percentile (Python index idx is position index + 1)
percentile(m, p) ==
    IF m.response_times = <<>> THEN 0
    ELSE LET sorted_rt == sorted(m.response_times)
             index == Max0((Len(sorted_rt) * p) \div 100 - 1)
         IN  sorted_rt[index + 1]

\* for req in completed: self.metrics.record_completion(req)
RECURSIVE RecordCompletions(_, _, _)
RecordCompletions(m, rq, ids) ==
    IF ids = <<>> THEN m
    ELSE RecordCompletions(record_completion(m, rq[Head(ids)]), rq, Tail(ids))

\* for req in dropped: self.metrics.record_drop(req)
RECURSIVE RecordDrops(_, _, _)
RecordDrops(m, rq, ids) ==
    IF ids = <<>> THEN m
    ELSE RecordDrops(record_drop(m, rq[Head(ids)]), rq, Tail(ids))

\* ------------------------------------------------------ load_balancer.py

\* variant: the pointer is one ahead when it is read
round_robin_ahead(rr, n) == (rr + 1) % n

\* LoadBalancer._round_robin: index of the server returned
round_robin(rr, n) == rr % n

\* variant: the pointer advances by two
rr_advance_two(rr) == rr + 2

\* LoadBalancer._round_robin: the pointer after the call
rr_advance(rr) == rr + 1

\* variant: the scan keeps the last minimum
RECURSIVE MinScan_last(_, _, _, _)
MinScan_last(svrs, n, i, best) ==
    IF i >= n THEN best
    ELSE IF queue_length(svrs[i]) <= queue_length(svrs[best])
         THEN MinScan_last(svrs, n, i + 1, i)
         ELSE MinScan_last(svrs, n, i + 1, best)

\* min(self.servers, key=...): left-to-right scan that keeps the first
\* minimum, from position i with the best index so far
RECURSIVE MinScan(_, _, _, _)
MinScan(svrs, n, i, best) ==
    IF i >= n THEN best
    ELSE IF queue_length(svrs[i]) < queue_length(svrs[best])
         THEN MinScan(svrs, n, i + 1, i)
         ELSE MinScan(svrs, n, i + 1, best)

\* variant: ties go to the highest index
least_loaded_last(svrs, n) == MinScan_last(svrs, n, 1, 0)

\* LoadBalancer._least_loaded: index of the server returned
least_loaded(svrs, n) == MinScan(svrs, n, 1, 0)

\* variant: no test for an empty server list, so the policy itself fails
dispatch_noGuard(svrs, n, alg, rr, id) ==
    IF n = 0
    THEN [error |-> IF alg = "round_robin" THEN "ZeroDivisionError"
                    ELSE "ValueError",
          target |-> None, servers |-> svrs, rr_index |-> rr]
    ELSE LET target == IF alg = "round_robin" THEN round_robin(rr, n)
                       ELSE least_loaded(svrs, n)
         IN  [error    |-> "none",
              target   |-> target,
              servers  |-> [svrs EXCEPT ![target] = enqueue(@, id)],
              rr_index |-> IF alg = "round_robin" THEN rr_advance(rr) ELSE rr]

\* LoadBalancer.dispatch: the target server (None with the RuntimeError
\* raised when there are no servers), the servers and the pointer after it
dispatch(svrs, n, alg, rr, id) ==
    IF n = 0
    THEN [error |-> "RuntimeError", target |-> None, servers |-> svrs,
          rr_index |-> rr]
    ELSE LET target == IF alg = "round_robin" THEN round_robin(rr, n)
                       ELSE least_loaded(svrs, n)
         IN  [error    |-> "none",
              target   |-> target,
              servers  |-> [svrs EXCEPT ![target] = enqueue(@, id)],
              rr_index |-> IF alg = "round_robin" THEN rr_advance(rr) ELSE rr]

\* -------------------------------------------------- simulation_engine.py

\* variant: the number of ticks is rounded up
num_ticks_ceil == (sim_duration + dt - 1) \div dt

\* num_ticks = int(self.sim_duration / self.dt)
num_ticks == sim_duration \div dt

Timeouts == (0..MaxTimeout) \cup {Inf}

\* np.random.exponential(1.0 / self.service_rate): a positive duration,
\* one step long or longer
ServiceTimes == {1, MaxService}

\* np.random.poisson(self.arrival_rate * self.dt): a count that keeps the
\* run within MaxRequests requests
ArrivalCounts ==
    {n \in 0..MaxArrivals : id_counter + n <= MaxRequests}

\* SimulationEngine.__init__ (num_servers = 0 raises ZeroDivisionError in
\* the utilisation formula, so an engine has at least one server)
Init ==
    /\ num_servers \in 1..MaxServers
    /\ algorithm \in {ALGORITHMS[1], ALGORITHMS[2]}
    /\ request_timeout \in Timeouts
    /\ dt \in 1..MaxDt
    /\ sim_duration \in 0..MaxDuration
    /\ clock = 0
    /\ pc = "loop"
    /\ tickNo = 0
    /\ pending = 0
    /\ idx = 0
    /\ servers = [i \in 0..(num_servers - 1) |-> ServerNode]
    /\ reqs = <<>>
    /\ id_counter = 0
    /\ rr_index = 0
    /\ metrics = MetricsCollector
    /\ completionLog = <<>>
    /\ dropLog = <<>>
    /\ dispatchLog = <<>>

\* where run() goes once num_arrivals more arrivals are left in this tick
AfterArrivals(n) == IF n = 0 THEN "evict" ELSE "arrivals"

\* run(): head of the main loop: advance the clock and draw num_arrivals
StartTick ==
    /\ pc = "loop"
    /\ tickNo < num_ticks
    /\ clock' = clock + dt
    /\ tickNo' = tickNo + 1
    /\ \E num_arrivals \in ArrivalCounts :
          /\ pending' = num_arrivals
          /\ pc' = AfterArrivals(num_arrivals)
    /\ idx' = 0
    /\ UNCHANGED <<config, servers, reqs, id_counter, rr_index, metrics,
                   completionLog, dropLog, dispatchLog>>

\* run(), step 1: draw a service time, create one request and dispatch it
Arrival ==
    /\ pc = "arrivals"
    /\ pending > 0
    /\ \E service_time \in ServiceTimes :
          LET id  == id_counter + 1
              req == ClientRequest(clock, service_time, request_timeout)
              d   == dispatch(servers, num_servers, algorithm, rr_index, id)
          IN  /\ d.error = "none"
              /\ id_counter' = id
              /\ reqs' = Append(reqs, req)
              /\ servers' = d.servers
              /\ rr_index' = d.rr_index
              /\ dispatchLog' = Append(dispatchLog,
                    [id |-> id, server |-> d.target,
                     busy |-> is_busy(servers[d.target])])
    /\ pending' = pending - 1
    /\ pc' = AfterArrivals(pending - 1)
    /\ UNCHANGED <<config, clock, tickNo, idx, metrics, completionLog, dropLog>>

\* log entries for the requests a server call handed back
Stamp(ids, by) == [k \in 1..Len(ids) |-> [id |-> ids[k], by |-> by, at |-> clock]]

\* run(), step 2, one server: drop_timed_out and record every drop
EvictServer ==
    /\ pc = "evict"
    /\ LET r == drop_timed_out(servers[idx], reqs, clock) IN
          /\ servers' = [servers EXCEPT ![idx] = r.server]
          /\ metrics' = RecordDrops(metrics, reqs, r.timed_out)
          /\ dropLog' = dropLog \o Stamp(r.timed_out, "evict")
    /\ IF idx + 1 < num_servers
       THEN /\ idx' = idx + 1
            /\ pc' = "evict"
       ELSE /\ idx' = 0
            /\ pc' = "advance"
    /\ UNCHANGED <<config, clock, tickNo, pending, reqs, id_counter, rr_index,
                   completionLog, dispatchLog>>

\* run(), step 3, one server: tick and record every completion
AdvanceServer ==
    /\ pc = "advance"
    /\ LET r == tick(servers[idx], reqs, clock) IN
          /\ servers' = [servers EXCEPT ![idx] = r.server]
          /\ reqs' = r.rq
          /\ metrics' = RecordCompletions(metrics, r.rq, r.completed)
          /\ completionLog' = completionLog \o Stamp(r.completed, "tick")
    /\ IF idx + 1 < num_servers
       THEN /\ idx' = idx + 1
            /\ pc' = "advance"
       ELSE /\ idx' = 0
            /\ pc' = "loop"
    /\ UNCHANGED <<config, clock, tickNo, pending, id_counter, rr_index,
                   dropLog, dispatchLog>>

\* variant: the drain overwrites the completion time with the clock
DrainCompletionTime_forced(completion_time, now) == now

\* req.completion_time or self.clock (None and 0.0 are falsy)
DrainCompletionTime(completion_time, now) ==
    IF completion_time = None \/ completion_time = 0 THEN now
    ELSE completion_time

\* variant: the drain also finalises the head of the waiting queue
DrainServer_queueToo(st, i) ==
    LET cur == st.servers[i].current_request IN
    IF cur # None
    THEN LET rq1 == [st.rq EXCEPT ![cur].completion_time =
                        DrainCompletionTime(@, clock)]
         IN  [servers |-> [st.servers EXCEPT ![i].current_request = None,
                                             ![i].queue = <<>>],
              rq      |-> rq1,
              metrics |-> record_completion(st.metrics, rq1[cur]),
              log     |-> Append(st.log,
                            [id |-> cur, by |-> "drain", at |-> clock])]
    ELSE st

\* _drain_remaining, body of the loop for one server, on the state
\* st = [servers, rq, metrics, log]
DrainServer(st, i) ==
    LET cur == st.servers[i].current_request IN
    IF cur # None
    THEN LET rq1 == [st.rq EXCEPT ![cur].completion_time =
                        DrainCompletionTime(@, clock)]
         IN  [servers |-> [st.servers EXCEPT ![i].current_request = None],
              rq      |-> rq1,
              metrics |-> record_completion(st.metrics, rq1[cur]),
              log     |-> Append(st.log,
                            [id |-> cur, by |-> "drain", at |-> clock])]
    ELSE st

\* _drain_remaining: for server in self.servers, from server i on
RECURSIVE DrainFrom(_, _)
DrainFrom(st, i) ==
    IF i >= num_servers THEN st ELSE DrainFrom(DrainServer(st, i), i + 1)

\* run(): the loop is over: _drain_remaining, then return self.metrics
Drain ==
    /\ pc = "loop"
    /\ tickNo >= num_ticks
    /\ LET st == DrainFrom([servers |-> servers, rq |-> reqs,
                            metrics |-> metrics, log |-> completionLog], 0)
       IN  /\ servers' = st.servers
           /\ reqs' = st.rq
           /\ metrics' = st.metrics
           /\ completionLog' = st.log
    /\ pc' = "done"
    /\ UNCHANGED <<config, clock, tickNo, pending, idx, id_counter, rr_index,
                   dropLog, dispatchLog>>

Next == StartTick \/ Arrival \/ EvictServer \/ AdvanceServer \/ Drain

Spec == Init /\ [][Next]_vars

\* the configurations followed to the end of run(): one or two servers,
\* round robin, and a timeout that is either absent or immediate
InitRun ==
    /\ Init
    /\ num_servers <= 2
    /\ algorithm = ALGORITHMS[1]
    /\ request_timeout \in {0, Inf}

\* run() is one sequential loop: a step that can be taken is taken
FairSpec == InitRun /\ [][Next]_vars /\ WF_vars(Next)

\* ------------------------------------------- a MetricsCollector used alone

\* the timestamps of the requests a caller hands to a collector
CallTimes == 0..MaxDt

\* a caller with a fresh MetricsCollector and no engine run
InitCollector ==
    /\ num_servers = 1
    /\ algorithm = ALGORITHMS[1]
    /\ request_timeout = Inf
    /\ dt = 1
    /\ sim_duration = 0
    /\ clock = 0
    /\ pc = "collector"
    /\ tickNo = 0
    /\ pending = 0
    /\ idx = 0
    /\ servers = [i \in 0..0 |-> ServerNode]
    /\ reqs = <<>>
    /\ id_counter = 0
    /\ rr_index = 0
    /\ metrics = MetricsCollector
    /\ completionLog = <<>>
    /\ dropLog = <<>>
    /\ dispatchLog = <<>>

\* a call of record_completion with a request that is finished
\* (completion_time set) or not (None)
CallRecordCompletion ==
    /\ pc = "collector"
    /\ Len(reqs) < MaxCalls
    /\ \E arrival_time \in CallTimes, completion_time \in CallTimes \cup {None} :
          /\ completion_time # None => completion_time >= arrival_time
          /\ LET req == [ClientRequest(arrival_time, 1, Inf) EXCEPT
                            !.start_service_time =
                                IF completion_time = None THEN None
                                ELSE arrival_time,
                            !.completion_time = completion_time]
             IN  /\ reqs' = Append(reqs, req)
                 /\ metrics' = record_completion(metrics, req)
          /\ id_counter' = id_counter + 1
          /\ completionLog' = Append(completionLog,
                [id |-> id_counter + 1, by |-> "call", at |-> clock])
    /\ UNCHANGED <<config, clock, pc, tickNo, pending, idx, servers, rr_index,
                   dropLog, dispatchLog>>

\* a call of record_drop with a request that never started
CallRecordDrop ==
    /\ pc = "collector"
    /\ Len(reqs) < MaxCalls
    /\ \E arrival_time \in CallTimes :
          LET req == ClientRequest(arrival_time, 1, 0) IN
          /\ reqs' = Append(reqs, req)
          /\ metrics' = record_drop(metrics, req)
    /\ id_counter' = id_counter + 1
    /\ dropLog' = Append(dropLog,
          [id |-> id_counter + 1, by |-> "call", at |-> clock])
    /\ UNCHANGED <<config, clock, pc, tickNo, pending, idx, servers, rr_index,
                   completionLog, dispatchLog>>

NextCollector == CallRecordCompletion \/ CallRecordDrop

SpecCollector == InitCollector /\ [][NextCollector]_vars

\* ----------------------------------------------- a LoadBalancer used alone

\* LoadBalancer.__init__ over a list of 0..MaxServers fresh servers
InitDispatcher ==
    /\ num_servers \in 0..MaxServers
    /\ algorithm \in {ALGORITHMS[1], ALGORITHMS[2]}
    /\ request_timeout = Inf
    /\ dt = 1
    /\ sim_duration = 0
    /\ clock = 0
    /\ pc = "dispatcher"
    /\ tickNo = 0
    /\ pending = 0
    /\ idx = 0
    /\ servers = [i \in 0..(num_servers - 1) |-> ServerNode]
    /\ reqs = <<>>
    /\ id_counter = 0
    /\ rr_index = 0
    /\ metrics = MetricsCollector
    /\ completionLog = <<>>
    /\ dropLog = <<>>
    /\ dispatchLog = <<>>

\* a call of dispatch with a new request; pc is the error it raised, if any
CallDispatch ==
    /\ pc \in {"dispatcher", "RuntimeError"}
    /\ Len(reqs) < MaxCalls
    /\ \E service_time \in ServiceTimes, timeout \in Timeouts :
          LET id  == id_counter + 1
              req == ClientRequest(clock, service_time, timeout)
              d   == dispatch(servers, num_servers, algorithm, rr_index, id)
          IN  /\ id_counter' = id
              /\ reqs' = Append(reqs, req)
              /\ servers' = d.servers
              /\ rr_index' = d.rr_index
              /\ pc' = IF d.error = "none" THEN "dispatcher" ELSE d.error
              /\ dispatchLog' = Append(dispatchLog,
                    [id |-> id, server |-> d.target, busy |-> FALSE])
    /\ UNCHANGED <<config, clock, tickNo, pending, idx, metrics, completionLog,
                   dropLog>>

NextDispatcher == CallDispatch

SpecDispatcher == InitDispatcher /\ [][NextDispatcher]_vars

\* ---------------------------------------------------------------- claims

\* the request a log entry is about
ReqOf(e) == reqs[e.id]

\* the number of requests the engine has created so far
Created == Len(reqs)

\* the ids a log names
IdsOf(log) == {log[k].id : k \in DOMAIN log}

\* the ids waiting in some server's queue
Waiting(svrs) ==
    UNION {{svrs[i].queue[k] : k \in DOMAIN svrs[i].queue} : i \in DOMAIN svrs}

RECURSIVE SumQueues(_, _)
SumQueues(svrs, n) ==
    IF n = 0 THEN 0 ELSE queue_length(svrs[n - 1]) + SumQueues(svrs, n - 1)

\* C1 as stated: every request the drain records is recorded with a
\* completion time equal to the final clock (none lies after it).
C1_DrainAtFinalClock ==
    \A k \in DOMAIN completionLog :
        completionLog[k].by = "drain" =>
            /\ ReqOf(completionLog[k]).completion_time = completionLog[k].at
            /\ metrics.response_times[k] =
                  completionLog[k].at - ReqOf(completionLog[k]).arrival_time

\* C1 amended: every request the drain records keeps its scheduled
\* completion time, start of service + service duration, which is never
\* before the final clock, and its recorded response time is that scheduled
\* completion time minus its arrival time.
C1_DrainKeepsScheduled ==
    \A k \in DOMAIN completionLog :
        completionLog[k].by = "drain" =>
            LET r == ReqOf(completionLog[k]) IN
            /\ r.completion_time = r.start_service_time + r.service_time
            /\ r.completion_time >= completionLog[k].at
            /\ completionLog[k].at = clock
            /\ metrics.response_times[k] = r.completion_time - r.arrival_time

\* a run has ended with a drained request whose scheduled completion lies
\* after the final clock
C1_Witness ==
    /\ pc = "done"
    /\ \E k \in DOMAIN completionLog :
          /\ completionLog[k].by = "drain"
          /\ ReqOf(completionLog[k]).completion_time > clock

\* C2: every request recorded as completed, by a tick or by the drain, has
\* arrival <= start of service <= completion, and its recorded response
\* time is completion - arrival and at least its service duration.
C2_CompletedTimes ==
    /\ Len(metrics.response_times) = Len(completionLog)
    /\ \A k \in DOMAIN completionLog :
          LET r == ReqOf(completionLog[k]) IN
          /\ r.start_service_time # None
          /\ r.completion_time # None
          /\ r.arrival_time <= r.start_service_time
          /\ r.start_service_time <= r.completion_time
          /\ metrics.response_times[k] = r.completion_time - r.arrival_time
          /\ metrics.response_times[k] >= r.service_time

\* a tick and the drain have each recorded a request, one of which waited
C2_Witness ==
    /\ \E k \in DOMAIN completionLog : completionLog[k].by = "tick"
    /\ \E k \in DOMAIN completionLog : completionLog[k].by = "drain"
    /\ \E k \in DOMAIN completionLog :
          /\ ReqOf(completionLog[k]).start_service_time >
                ReqOf(completionLog[k]).arrival_time
          /\ ReqOf(completionLog[k]).service_time > dt

\* C3: every request recorded as dropped never started service (it is not
\* in a slot and was never completed), and the clock at the drop minus its
\* arrival time is strictly greater than its finite timeout.
C3_DroppedTimes ==
    /\ metrics.dropped_requests = Len(dropLog)
    /\ \A k \in DOMAIN dropLog :
          LET r == ReqOf(dropLog[k]) IN
          /\ r.start_service_time = None
          /\ r.completion_time = None
          /\ r.timeout # Inf
          /\ dropLog[k].at - r.arrival_time > r.timeout
          /\ dropLog[k].id \notin IdsOf(completionLog)
          /\ \A i \in DOMAIN servers : servers[i].current_request # dropLog[k].id

\* a request was dropped from a queue that kept a younger request, while
\* the server was busy
C3_Witness ==
    /\ dropLog # <<>>
    /\ \E i \in DOMAIN servers :
          /\ servers[i].queue # <<>>
          /\ is_busy(servers[i])
          /\ pc = "advance"

\* C4: at every point of a run, completed + dropped <= requests created.
C4_CountsBounded == total_requests(metrics) <= Created

\* completions and drops have both been counted and some request is still
\* unaccounted for after the drain
C4_Witness ==
    /\ pc = "done"
    /\ metrics.completed_requests > 0
    /\ metrics.dropped_requests > 0
    /\ total_requests(metrics) < Created

\* C5: the step in which run() returns leaves every slot empty, every
\* waiting queue and the dropped count unchanged, and created - (completed
\* + dropped) equal to the number of requests in the waiting queues, none
\* of which was counted as completed or dropped.
C5_EndOfRunAccounting ==
    [][pc' = "done" =>
         /\ \A i \in DOMAIN servers :
               /\ servers'[i].current_request = None
               /\ servers'[i].queue = servers[i].queue
         /\ metrics'.dropped_requests = metrics.dropped_requests
         /\ dropLog' = dropLog
         /\ Len(reqs') - total_requests(metrics') =
               SumQueues(servers', num_servers)
         /\ Waiting(servers') \cap (IdsOf(completionLog') \cup IdsOf(dropLog'))
               = {}]_vars

\* a run has ended with a drained request and requests abandoned in a queue
C5_Witness ==
    /\ pc = "done"
    /\ \E k \in DOMAIN completionLog : completionLog[k].by = "drain"
    /\ \E i \in DOMAIN servers : Len(servers[i].queue) >= 2
    /\ metrics.dropped_requests > 0

\* the servers of the N dispatches from the k-th on
Window(k) == [j \in 0..(num_servers - 1) |-> dispatchLog[k + j].server]

\* the first dispatch numbers that start a full window of N dispatches
WindowStarts == 1..(Len(dispatchLog) - num_servers + 1)

\* C6 as stated: under round_robin any N consecutive dispatches visit each
\* server exactly once in ascending identifier order 0, 1, ..., N-1.
C6_AnyWindowAscending ==
    algorithm = "round_robin" =>
        \A k \in WindowStarts :
            \A j \in 0..(num_servers - 1) : Window(k)[j] = j

\* C6 amended: under round_robin any N consecutive dispatches visit each
\* server exactly once, in cyclic ascending order (each next server is the
\* previous one + 1 modulo N); the order is 0, 1, ..., N-1 when the number
\* of earlier dispatches is a multiple of N.
C6_AnyWindowCyclic ==
    algorithm = "round_robin" =>
        \A k \in WindowStarts :
            /\ {Window(k)[j] : j \in 0..(num_servers - 1)}
                  = 0..(num_servers - 1)
            /\ \A j \in 1..(num_servers - 1) :
                  Window(k)[j] = (Window(k)[j - 1] + 1) % num_servers
            /\ (k - 1) % num_servers = 0 =>
                  \A j \in 0..(num_servers - 1) : Window(k)[j] = j

\* two full rounds have been dispatched over several servers whose queue
\* lengths differ
C6_Witness ==
    /\ algorithm = "round_robin"
    /\ num_servers >= 2
    /\ Len(dispatchLog) >= 2 * num_servers
    /\ \E i, j \in DOMAIN servers :
          queue_length(servers[i]) > queue_length(servers[j])

\* C7: under round_robin the k-th dispatch since construction appends the
\* request to the queue of server (k-1) mod N, touches no other server and
\* returns that server, whatever completions, evictions and queue lengths
\* lie in between.
C7_KthDispatch ==
    [][(algorithm = "round_robin" /\ dispatchLog' # dispatchLog) =>
         LET k == Len(dispatchLog) + 1
             t == (k - 1) % num_servers
         IN  /\ Len(dispatchLog') = k
             /\ dispatchLog'[k].server = t
             /\ dispatchLog'[k].id = id_counter'
             /\ servers'[t] =
                   [servers[t] EXCEPT !.queue = Append(@, id_counter')]
             /\ \A i \in DOMAIN servers : i # t => servers'[i] = servers[i]
             /\ \A m \in DOMAIN dispatchLog :
                   dispatchLog[m].server = (m - 1) % num_servers]_vars

\* four dispatches over two servers went 0,1,0,1, with a completion before
\* the last one and an eviction in the run
C7_Witness ==
    /\ algorithm = "round_robin"
    /\ num_servers = 2
    /\ Len(dispatchLog) = 4
    /\ [k \in 1..4 |-> dispatchLog[k].server] = <<0, 1, 0, 1>>
    /\ completionLog # <<>>
    /\ completionLog[1].at < reqs[4].arrival_time
    /\ dropLog # <<>>

\* C8: under least_loaded every dispatch appends the request to exactly one
\* server's queue; that server's waiting-queue length before the enqueue is
\* <= every server's, and every server with a lower identifier has a
\* strictly longer queue.
C8_LeastLoaded ==
    [][(algorithm = "least_loaded" /\ dispatchLog' # dispatchLog) =>
         LET t == dispatchLog'[Len(dispatchLog')].server IN
         /\ t \in DOMAIN servers
         /\ \A i \in DOMAIN servers :
               Len(servers[t].queue) <= Len(servers[i].queue)
         /\ \A i \in DOMAIN servers :
               i < t => Len(servers[i].queue) > Len(servers[t].queue)
         /\ servers'[t] = [servers[t] EXCEPT !.queue = Append(@, id_counter')]
         /\ \A i \in DOMAIN servers : i # t => servers'[i] = servers[i]]_vars

\* least_loaded has chosen server 1 over a longer server 0, and server 0 on
\* a tie while server 0 was busy and server 1 idle
C8_Witness ==
    /\ algorithm = "least_loaded"
    /\ num_servers >= 2
    /\ \E k \in DOMAIN dispatchLog : dispatchLog[k].server = 1
    /\ \E k \in DOMAIN dispatchLog :
          /\ dispatchLog[k].server = 0
          /\ dispatchLog[k].busy
          /\ k > 1

\* request id was recorded as dropped at clock value t
DroppedAt(id, t) ==
    \E k \in DOMAIN dropLog : dropLog[k].id = id /\ dropLog[k].at = t

\* the eviction step of the tick with clock value t has run on every server
EvictionDone(t) ==
    \/ clock > t
    \/ clock = t /\ pc \in {"advance", "loop", "done"}

\* Scenario B: one server, every request has timeout 0
ZeroTimeoutCase == num_servers = 1 /\ request_timeout = 0

\* C9 as stated: with 1 server and timeout 0, a request dispatched in tick
\* t while the server is busy is not evicted in tick t and is evicted, never
\* having started service, in tick t+1.
C9_EvictedNextTick ==
    ZeroTimeoutCase =>
        \A k \in DOMAIN dispatchLog :
            dispatchLog[k].busy =>
                LET id == dispatchLog[k].id
                    t  == reqs[id].arrival_time
                IN  /\ ~DroppedAt(id, t)
                    /\ EvictionDone(t + dt) =>
                          /\ DroppedAt(id, t + dt)
                          /\ reqs[id].start_service_time = None

\* C9 amended: with 1 server and timeout 0, a request dispatched in tick t
\* while the server is busy is not evicted in tick t; it either starts
\* service in tick t itself, after the in-service request completed in that
\* tick, and is then never dropped, or it never starts service and is
\* evicted and recorded as a drop, once, in tick t+1 if that tick is run.
C9_EvictedNextTickIfWaiting ==
    ZeroTimeoutCase =>
        \A k \in DOMAIN dispatchLog :
            dispatchLog[k].busy =>
                LET id == dispatchLog[k].id
                    t  == reqs[id].arrival_time
                    r  == reqs[id]
                IN  /\ ~DroppedAt(id, t)
                    /\ r.start_service_time \in {None, t}
                    /\ r.start_service_time = t =>
                          /\ id \notin IdsOf(dropLog)
                          /\ \E c \in DOMAIN completionLog :
                                /\ completionLog[c].by = "tick"
                                /\ completionLog[c].at = t
                    /\ (r.start_service_time = None /\ EvictionDone(t + dt)) =>
                          /\ DroppedAt(id, t + dt)
                          /\ Cardinality({d \in DOMAIN dropLog :
                                            dropLog[d].id = id}) = 1
                          /\ metrics.dropped_requests = Len(dropLog)

\* a timeout-0 request that arrived at a busy single server has been
\* dropped in the tick after its arrival
C9_Witness ==
    /\ ZeroTimeoutCase
    /\ \E k \in DOMAIN dispatchLog :
          /\ dispatchLog[k].busy
          /\ DroppedAt(dispatchLog[k].id,
                       reqs[dispatchLog[k].id].arrival_time + dt)
          /\ reqs[dispatchLog[k].id].start_service_time = None

\* C10: in every tick the arrivals come first, then the eviction of every
\* server, then the advance of every server; and whatever the timeout, a
\* request is never dropped in the tick it was created in.
C10_TickOrder ==
    [][/\ id_counter' # id_counter => pc = "arrivals"
       /\ pc = "arrivals" => pc' \in {"arrivals", "evict"} /\ clock' = clock
       /\ pc' = "evict" => pending' = 0
       /\ pc = "evict" =>
             /\ clock' = clock
             /\ pc' = IF idx = num_servers - 1 THEN "advance" ELSE "evict"
       /\ pc = "advance" =>
             /\ clock' = clock
             /\ pc' = IF idx = num_servers - 1 THEN "loop" ELSE "advance"
       /\ dropLog' # dropLog => pc = "evict"
       /\ completionLog' # completionLog => pc \in {"advance", "loop"}
       /\ \A k \in DOMAIN dropLog' :
             reqs'[dropLog'[k].id].arrival_time < dropLog'[k].at]_vars

\* a request with timeout 0 has gone through the eviction step of the tick
\* it arrived in and is still waiting while the servers are advanced
C10_Witness ==
    /\ request_timeout = 0
    /\ pc = "advance"
    /\ idx = num_servers - 1
    /\ \E i \in DOMAIN servers :
          \E k \in DOMAIN servers[i].queue :
              reqs[servers[i].queue[k]].arrival_time = clock
    /\ dropLog # <<>>

\* the percentages percentile is asked for
Percentiles == {0, 1, 25, 50, 75, 95, 99, 100}

\* the largest recorded response time
MaxResponseTime ==
    CHOOSE v \in {metrics.response_times[k] : k \in DOMAIN metrics.response_times} :
        \A k \in DOMAIN metrics.response_times : metrics.response_times[k] <= v

\* C12: percentile(p) is 0 with no completion; otherwise it is the element
\* of rank max(0, floor(count*p/100) - 1) (counted from 0) of the response
\* times in ascending order: fewer than rank+1 recorded values lie below it
\* and at least rank+1 are <= it.  It is non-decreasing in p, and
\* percentile(100) is the largest recorded response time.
C12_Percentile ==
    LET rts   == metrics.response_times
        count == Len(rts)
    IN  /\ count = 0 => \A p \in Percentiles : percentile(metrics, p) = 0
        /\ count > 0 =>
              /\ \A p \in Percentiles :
                    LET v    == percentile(metrics, p)
                        rank == Max0((count * p) \div 100 - 1)
                    IN  /\ \E k \in DOMAIN rts : rts[k] = v
                        /\ Cardinality({k \in DOMAIN rts : rts[k] < v}) <= rank
                        /\ Cardinality({k \in DOMAIN rts : rts[k] <= v}) > rank
              /\ \A p, q \in Percentiles :
                    p <= q => percentile(metrics, p) <= percentile(metrics, q)
              /\ percentile(metrics, 100) = MaxResponseTime

\* three response times were recorded out of ascending order and the median
\* lies strictly below the 95th percentile
C12_Witness ==
    /\ Len(metrics.response_times) >= 3
    /\ \E k \in 1..(Len(metrics.response_times) - 1) :
          metrics.response_times[k] > metrics.response_times[k + 1]
    /\ percentile(metrics, 50) < percentile(metrics, 95)
    /\ percentile(metrics, 95) < percentile(metrics, 100)

\* the number of requests handed to the collector so far
Handed == Len(completionLog) + Len(dropLog)

\* the requests handed to record_completion without a completion time
Ignored ==
    Cardinality({k \in DOMAIN completionLog :
                    ReqOf(completionLog[k]).completion_time = None})

\* C13 as stated: after any sequence of record_completion and record_drop
\* calls, completed + dropped is the number of requests handed to the
\* collector and the response-time sequence is as long as the completed
\* count.
C13_CountsAllHanded ==
    /\ total_requests(metrics) = Handed
    /\ Len(metrics.response_times) = metrics.completed_requests

\* C13 amended: after any sequence of record_completion and record_drop
\* calls, completed + dropped is the number of requests handed to the
\* collector minus those handed to record_completion without a completion
\* time, which are ignored; the dropped count is the number of record_drop
\* calls and the response-time sequence is as long as the completed count.
C13_CountsAllButIgnored ==
    /\ total_requests(metrics) = Handed - Ignored
    /\ metrics.dropped_requests = Len(dropLog)
    /\ metrics.completed_requests = Len(completionLog) - Ignored
    /\ Len(metrics.response_times) = metrics.completed_requests

\* a collector was handed a finished request, a dropped one and an
\* unfinished one
C13_Witness ==
    /\ metrics.completed_requests > 0
    /\ metrics.dropped_requests > 0
    /\ Ignored > 0

\* C14: a dispatch call on a dispatcher with no servers raises the
\* RuntimeError under either policy, returns no server and enqueues the
\* request on no server.
C14_NoServers ==
    [][(num_servers = 0 /\ dispatchLog' # dispatchLog) =>
         /\ pc' = "RuntimeError"
         /\ dispatchLog'[Len(dispatchLog')].server = None
         /\ servers' = servers
         /\ Waiting(servers') = {}]_vars

\* dispatch has failed on a least_loaded dispatcher with no servers, twice
C14_Witness ==
    /\ num_servers = 0
    /\ algorithm = "least_loaded"
    /\ pc = "RuntimeError"
    /\ Len(dispatchLog) = 2

\* the number of places request id is held in: queue positions and slots
Locations(id) ==
    LET InQueue(i) == Cardinality({k \in DOMAIN servers[i].queue :
                                      servers[i].queue[k] = id})
        InSlot(i)  == IF servers[i].current_request = id THEN 1 ELSE 0
        RECURSIVE Sum(_)
        Sum(n) == IF n = 0 THEN 0
                  ELSE InQueue(n - 1) + InSlot(n - 1) + Sum(n - 1)
    IN  Sum(num_servers)

\* C15: in every state of a run each request created is held in exactly one
\* place (one position of one waiting queue, or one in-service slot) until
\* it is recorded as completed or dropped, and in no place afterwards; the
\* slot of a server holds one request or none.
C15_OneLocation ==
    /\ \A id \in 1..Len(reqs) :
          Locations(id) =
              IF id \in IdsOf(completionLog) \cup IdsOf(dropLog) THEN 0 ELSE 1
    /\ \A i \in DOMAIN servers :
          /\ servers[i].current_request \in {None} \cup (1..Len(reqs))
          /\ \A k \in DOMAIN servers[i].queue :
                servers[i].queue[k] \in 1..Len(reqs)

\* a server holds one request in service and another one waiting, after a
\* completion and a drop
C15_Witness ==
    /\ num_servers = 2
    /\ \E i \in DOMAIN servers :
          is_busy(servers[i]) /\ servers[i].queue # <<>>
    /\ completionLog # <<>>
    /\ dropLog # <<>>

\* C16: a server advance at clock t: if the server is busy and t >= the
\* completion time of the in-service request, that time is set to t, the
\* request is emitted (and recorded) as completed and the slot is freed;
\* then if the slot is free and the queue non-empty, the head leaves the
\* queue, starts at t, is due at t + its service duration and takes the
\* slot.  At most one completion is emitted, and a busy server whose
\* request is not due is left unchanged.
C16_Advance ==
    [][pc = "advance" =>
         LET s    == servers[idx]
             cur  == s.current_request
             due  == cur # None /\ clock >= reqs[cur].completion_time
             free == cur = None \/ due
         IN  /\ due =>
                   /\ reqs'[cur].completion_time = clock
                   /\ completionLog' = Append(completionLog,
                         [id |-> cur, by |-> "tick", at |-> clock])
                   /\ metrics'.completed_requests =
                         metrics.completed_requests + 1
                   /\ servers'[idx].current_request # cur
             /\ ~due => completionLog' = completionLog /\ metrics' = metrics
             /\ (free /\ s.queue # <<>>) =>
                   LET h == Head(s.queue) IN
                   /\ servers'[idx].queue = Tail(s.queue)
                   /\ servers'[idx].current_request = h
                   /\ reqs'[h].start_service_time = clock
                   /\ reqs'[h].completion_time = clock + reqs[h].service_time
             /\ (free /\ s.queue = <<>>) =>
                   /\ servers'[idx].current_request = None
                   /\ servers'[idx].queue = <<>>
             /\ ~free => servers' = servers /\ reqs' = reqs
             /\ \A i \in DOMAIN servers : i # idx => servers'[i] = servers[i]
             /\ Len(completionLog') <= Len(completionLog) + 1]_vars

\* one advance has completed a request and started the next one, and
\* another server was busy with a request that is not due
C16_Witness ==
    /\ \E i \in DOMAIN servers :
          /\ servers[i].completed # <<>>
          /\ is_busy(servers[i])
          /\ reqs[servers[i].current_request].start_service_time = clock
          /\ reqs[servers[i].completed[Len(servers[i].completed)]]
                .completion_time = clock
    /\ \E i \in DOMAIN servers :
          /\ is_busy(servers[i])
          /\ reqs[servers[i].current_request].start_service_time < clock
          /\ reqs[servers[i].current_request].completion_time > clock
    /\ pc = "loop"

\* C17: the eviction of a server at clock t returns (and records as drops)
\* exactly its waiting requests with t - arrival > timeout, in queue order,
\* keeps the others in their relative order, and leaves the in-service
\* request, every timestamp and the other servers unchanged.
C17_Eviction ==
    [][pc = "evict" =>
         LET s      == servers[idx]
             Late(id) == /\ reqs[id].timeout # Inf
                         /\ clock - reqs[id].arrival_time > reqs[id].timeout
             out    == SelectSeq(s.queue, Late)
             kept   == SelectSeq(s.queue, LAMBDA id : ~Late(id))
         IN  /\ dropLog' = dropLog \o
                   [k \in 1..Len(out) |->
                       [id |-> out[k], by |-> "evict", at |-> clock]]
             /\ servers'[idx].queue = kept
             /\ servers'[idx].current_request = s.current_request
             /\ reqs' = reqs
             /\ \A i \in DOMAIN servers : i # idx => servers'[i] = servers[i]]_vars

\* an eviction dropped a request and kept two younger ones behind a busy
\* slot
C17_Witness ==
    /\ pc \in {"evict", "advance"}
    /\ dropLog # <<>>
    /\ dropLog[Len(dropLog)].at = clock
    /\ \E i \in DOMAIN servers :
          /\ is_busy(servers[i])
          /\ Len(servers[i].queue) >= 2
          /\ \A k \in DOMAIN servers[i].queue :
                servers[i].queue[k] > dropLog[Len(dropLog)].id

\* C18: run() starts with clock 0, executes exactly floor(duration / step)
\* ticks, each tick adds exactly the step to the clock (nothing else moves
\* it), so the clock ends at floor(duration / step) * step <= duration; the
\* drain runs once, after the last tick, and run() then terminates.
C18_ClockAndTermination ==
    /\ clock = 0 /\ tickNo = 0
    /\ [][\/ clock' = clock /\ tickNo' = tickNo
          \/ /\ clock' = clock + dt /\ clock' > clock
             /\ tickNo' = tickNo + 1
             /\ pc = "loop"]_vars
    /\ [][/\ pc # "done"
          /\ pc' = "done" =>
                /\ pc = "loop"
                /\ tickNo = sim_duration \div dt
                /\ \A i \in DOMAIN servers :
                      servers'[i].current_request = None]_vars
    /\ [](pc = "done" =>
             /\ tickNo = sim_duration \div dt
             /\ clock = tickNo * dt
             /\ clock <= sim_duration)
    /\ <>(pc = "done")

\* a run whose ticks do not use up the duration has drained and returned
C18_Witness ==
    /\ pc = "done"
    /\ tickNo >= 1
    /\ clock < sim_duration
    /\ \E k \in DOMAIN completionLog : completionLog[k].by = "drain"

\* C19: over a whole run no request is recorded twice: none is completed
\* twice (by two ticks, or by a tick and then by the drain), none is dropped
\* twice, and none is both completed and dropped; the counters of the
\* collector count the recorded requests.
C19_RecordedOnce ==
    /\ \A j, k \in DOMAIN completionLog :
          completionLog[j].id = completionLog[k].id => j = k
    /\ \A j, k \in DOMAIN dropLog : dropLog[j].id = dropLog[k].id => j = k
    /\ IdsOf(completionLog) \cap IdsOf(dropLog) = {}
    /\ metrics.completed_requests = Cardinality(IdsOf(completionLog))
    /\ metrics.dropped_requests = Cardinality(IdsOf(dropLog))

\* a finished run recorded a completion by a tick, another one by the drain
\* and a drop
C19_Witness ==
    /\ pc = "done"
    /\ \E k \in DOMAIN completionLog : completionLog[k].by = "tick"
    /\ \E k \in DOMAIN completionLog :
          /\ completionLog[k].by = "drain"
          /\ ReqOf(completionLog[k]).completion_time > clock
    /\ dropLog # <<>>

\* C20: every request that has started service (so every completed one)
\* waited no longer than its timeout: start of service - arrival <= timeout.
C20_WaitBounded ==
    \A id \in 1..Len(reqs) :
        reqs[id].start_service_time # None =>
            \/ reqs[id].timeout = Inf
            \/ reqs[id].start_service_time - reqs[id].arrival_time
                  <= reqs[id].timeout

\* one request started after waiting exactly its timeout and completed,
\* another one waited longer and was dropped
C20_Witness ==
    /\ \E k \in DOMAIN completionLog :
          LET r == ReqOf(completionLog[k]) IN
          /\ r.timeout # Inf
          /\ r.timeout > 0
          /\ r.start_service_time - r.arrival_time = r.timeout
    /\ dropLog # <<>>

\* C21: at the end of every tick of the main loop, after all servers have
\* been advanced, no server is idle while its queue is non-empty: an empty
\* in-service slot implies an empty queue, for every server.
C21_WorkConserving ==
    (pc = "loop") =>
        \A i \in DOMAIN servers :
            servers[i].current_request = None => servers[i].queue = <<>>

\* a tick has ended in which a server completed one request and started the
\* next while a third one keeps waiting, and a request was evicted
C21_Witness ==
    /\ pc = "loop"
    /\ tickNo >= 2
    /\ \E i \in DOMAIN servers :
          /\ servers[i].completed # <<>>
          /\ is_busy(servers[i])
          /\ reqs[servers[i].current_request].start_service_time = clock
          /\ servers[i].queue # <<>>
    /\ dropLog # <<>>

\* the position of request id in the order of the enqueues
EnqueuedAt(id) == CHOOSE k \in DOMAIN dispatchLog : dispatchLog[k].id = id

\* request a was enqueued before request b, on the same server
EnqueuedBefore(a, b) ==
    /\ dispatchLog[EnqueuedAt(a)].server = dispatchLog[EnqueuedAt(b)].server
    /\ EnqueuedAt(a) < EnqueuedAt(b)

\* C22: on any one server requests start service in the order they were
\* enqueued on it: the queue holds its requests in the order of their
\* enqueues, a request that has started was enqueued before every request
\* still waiting on its server, and of two started requests of one server
\* the one enqueued first started first.
C22_Fifo ==
    /\ \A i \in DOMAIN servers : \A j, k \in DOMAIN servers[i].queue :
          j < k => EnqueuedBefore(servers[i].queue[j], servers[i].queue[k])
    /\ \A a, b \in 1..Len(reqs) :
          (EnqueuedBefore(a, b) /\ reqs[b].start_service_time # None) =>
              /\ a \notin Waiting(servers)
              /\ reqs[a].start_service_time # None =>
                    reqs[a].start_service_time < reqs[b].start_service_time

\* on one server three requests were enqueued: the first one started, the
\* second one was evicted while waiting, the third one started later
C22_Witness ==
    \E a, b, c \in 1..Len(reqs) :
        /\ EnqueuedBefore(a, b) /\ EnqueuedBefore(b, c)
        /\ reqs[a].start_service_time # None
        /\ b \in IdsOf(dropLog)
        /\ reqs[c].start_service_time # None
        /\ reqs[b].arrival_time < reqs[c].arrival_time

====
